---------------------------- MODULE Spec2Model ----------------------------
(***************************************************************************)
(* A model of src/app.py, the Developer Task Manager: the Add Task flow    *)
(* (analyze_task, save_task, send_email), the View Tasks flow (fetch_tasks,*)
(* update_task_status) and the Time Tracking flow (add_time_entry), run by *)
(* several browser sessions against one MongoDB collection.                *)
(*                                                                         *)
(* Text is modelled character by character: a Python str is a sequence of  *)
(* one-character strings, so that split, strip, the substring test `in`,   *)
(* float(), strptime, strftime and MongoDB's string ordering are computed  *)
(* the way the code computes them.  A float is modelled by the integer     *)
(* number of tenths it denotes (4 hours is 40); every numeric literal the  *)
(* model feeds to float() has at most one fractional digit.                *)
(***************************************************************************)
EXTENDS Integers, Sequences, FiniteSets, TLC

(***************************************************************************)
(* Python str operations                                                   *)
(***************************************************************************)

\* The characters str.strip() removes that occur in the model's texts.
Whitespace == {" ", "\n"}

Digits == {"0", "1", "2", "3", "4", "5", "6", "7", "8", "9"}

\* The characters of the model's texts in code point order: MongoDB's default
\* (simple binary) collation compares strings by code point.
CodePoints ==
    <<"\n", " ", "(", ")", ",", "-", ".", "/", "0", "1", "2", "3", "4", "5", "6",
      "7", "8", "9", ":", "B", "C", "D", "E", "F", "H", "L", "M", "P", "T", "U",
      "a", "b", "c", "d", "e", "f", "g", "h", "i", "l", "m", "n", "o", "p", "r",
      "s", "t", "u", "w", "x", "y">>

ord(c) == CHOOSE i \in 1..Len(CodePoints) : CodePoints[i] = c

\* int(c) of one decimal digit.
DigitVal(c) == ord(c) - ord("0")

\* s[i:j] with Python's 0-based, end-exclusive bounds, given as the 1-based
\* first and last positions kept.
Slice(s, first, last) == [k \in 1..(last - first + 1) |-> s[first + k - 1]]

RECURSIVE lstrip(_)
lstrip(s) ==
    IF s # <<>> /\ Head(s) \in Whitespace THEN lstrip(Tail(s)) ELSE s

RECURSIVE rstrip(_)
rstrip(s) ==
    IF s # <<>> /\ s[Len(s)] \in Whitespace
    THEN rstrip(Slice(s, 1, Len(s) - 1))
    ELSE s

\* str.strip()
strip(s) == rstrip(lstrip(s))

\* str.split(sep) for a one-character separator: the pieces between the
\* separators, empty pieces kept ("".split(",") is [""]).
RECURSIVE split(_, _)
split(s, sep) ==
    IF \E i \in 1..Len(s) : s[i] = sep
    THEN LET i == CHOOSE k \in 1..Len(s) :
                      s[k] = sep /\ \A j \in 1..(k - 1) : s[j] # sep
         IN <<Slice(s, 1, i - 1)>> \o split(Slice(s, i + 1, Len(s)), sep)
    ELSE <<s>>

\* seq[-1]
Last(seq) == seq[Len(seq)]

\* sub in s
Contains(s, sub) ==
    \E i \in 0..(Len(s) - Len(sub)) :
        \A k \in 1..Len(sub) : s[i + k] = sub[k]

\* s < t in code point order (Python's and MongoDB's comparison of strings).
RECURSIVE StrLess(_, _)
StrLess(s, t) ==
    IF t = <<>> THEN FALSE
    ELSE IF s = <<>> THEN TRUE
    ELSE IF Head(s) = Head(t) THEN StrLess(Tail(s), Tail(t))
    ELSE ord(Head(s)) < ord(Head(t))

\* The value of a run of decimal digits.
RECURSIVE DigitsVal(_)
DigitsVal(s) ==
    IF s = <<>> THEN 0
    ELSE 10 * DigitsVal(Slice(s, 1, Len(s) - 1)) + DigitVal(s[Len(s)])

AllDigits(s) == \A i \in 1..Len(s) : s[i] \in Digits

(***************************************************************************)
(* float(str): surrounding whitespace is ignored; an optional sign, then   *)
(* digits with an optional fraction.  The result is in tenths.  ok = FALSE *)
(* is Python's ValueError.                                                 *)
(***************************************************************************)
float(str) ==
    LET t == strip(str)
        signed == t # <<>> /\ Head(t) \in {"-", "+"}
        neg == t # <<>> /\ Head(t) = "-"
        body == IF signed THEN Tail(t) ELSE t
        parts == split(body, ".")
        whole == parts[1]
        frac == IF Len(parts) = 2 THEN parts[2] ELSE <<>>
        wellFormed ==
            /\ Len(parts) \in {1, 2}
            /\ AllDigits(whole)
            /\ AllDigits(frac)
            /\ Len(whole) + Len(frac) > 0
            /\ Len(frac) <= 1
        mag == 10 * DigitsVal(whole) + DigitsVal(frac)
    IN IF wellFormed
       THEN [ok |-> TRUE, val |-> IF neg THEN 0 - mag ELSE mag]
       ELSE [ok |-> FALSE, val |-> 0]

(***************************************************************************)
(* Calendar dates                                                          *)
(***************************************************************************)

IsLeap(y) == (y % 4 = 0 /\ y % 100 # 0) \/ y % 400 = 0

DaysInMonth(y, m) ==
    IF m = 2 THEN (IF IsLeap(y) THEN 29 ELSE 28)
    ELSE IF m \in {4, 6, 9, 11} THEN 30
    ELSE 31

\* date + timedelta(days=1)
NextDay(dt) ==
    IF dt.d < DaysInMonth(dt.y, dt.m) THEN [dt EXCEPT !.d = dt.d + 1]
    ELSE IF dt.m < 12 THEN [y |-> dt.y, m |-> dt.m + 1, d |-> 1]
    ELSE [y |-> dt.y + 1, m |-> 1, d |-> 1]

RECURSIVE AddDays(_, _)
AddDays(dt, n) == IF n = 0 THEN dt ELSE AddDays(NextDay(dt), n - 1)

DigitChar(n) == CodePoints[ord("0") + n]

\* A number in `width` decimal digits, zero padded.
RECURSIVE Pad(_, _)
Pad(n, width) ==
    IF width = 0 THEN <<>>
    ELSE Pad(n \div 10, width - 1) \o <<DigitChar(n % 10)>>

\* dt.strftime("%Y-%m-%d")
strftime(dt) == Pad(dt.y, 4) \o <<"-">> \o Pad(dt.m, 2) \o <<"-">> \o Pad(dt.d, 2)

\* The text %m matches: 1[0-2] | 0[1-9] | [1-9]
MatchesMonth(f) ==
    /\ Len(f) \in {1, 2}
    /\ AllDigits(f)
    /\ DigitsVal(f) \in 1..12

\* The text %d matches: 3[01] | [12]\d | 0[1-9] | [1-9] | " "[1-9]
MatchesDay(f) ==
    \/ /\ Len(f) \in {1, 2}
       /\ AllDigits(f)
       /\ DigitsVal(f) \in 1..31
    \/ /\ Len(f) = 2
       /\ f[1] = " "
       /\ f[2] \in Digits \ {"0"}

DayVal(f) == IF f[1] = " " THEN DigitVal(f[2]) ELSE DigitsVal(f)

\* datetime.strptime(s, "%Y-%m-%d") returns (TRUE) or raises ValueError
\* (FALSE): four digits, "-", a month, "-", a day, nothing left over, and
\* the three make a date of the calendar (year 1 or later).
strptime_ok(s) ==
    LET f == split(s, "-") IN
    /\ Len(f) = 3
    /\ Len(f[1]) = 4
    /\ AllDigits(f[1])
    /\ MatchesMonth(f[2])
    /\ MatchesDay(f[3])
    /\ DigitsVal(f[1]) >= 1
    /\ DayVal(f[3]) <= DaysInMonth(DigitsVal(f[1]), DigitsVal(f[2]))

(***************************************************************************)
(* The texts of the program and of the model's inputs                      *)
(***************************************************************************)

Sp == <<" ">>
Colon == <<":">>
Comma == <<",">>
Newline == <<"\n">>

\* The markers analyze_task looks for (src/app.py lines 67-78).
W_DueDate == <<"D", "u", "e", " ", "D", "a", "t", "e">>
W_Priority == <<"P", "r", "i", "o", "r", "i", "t", "y">>
W_Complexity == <<"C", "o", "m", "p", "l", "e", "x", "i", "t", "y">>
W_EstimatedHours ==
    <<"E", "s", "t", "i", "m", "a", "t", "e", "d", " ", "H", "o", "u", "r", "s">>

W_High == <<"H", "i", "g", "h">>
W_Medium == <<"M", "e", "d", "i", "u", "m">>
W_Low == <<"L", "o", "w">>
W_Easy == <<"E", "a", "s", "y">>
W_Hard == <<"H", "a", "r", "d">>

\* The enumerations the prompt of analyze_task asks for (src/app.py line 52)
\* and the Analytics tab counts (lines 423-436).
Priorities == {W_High, W_Medium, W_Low}
Complexities == {W_Easy, W_Medium, W_Hard}

\* Values outside the enumerations.
W_Urgent == <<"U", "r", "g", "e", "n", "t">>
W_Trivial == <<"T", "r", "i", "v", "i", "a", "l">>

\* Date texts.
D_20250301 == <<"2", "0", "2", "5", "-", "0", "3", "-", "0", "1">>
D_20250228 == <<"2", "0", "2", "5", "-", "0", "2", "-", "2", "8">>
D_20240229 == <<"2", "0", "2", "4", "-", "0", "2", "-", "2", "9">>
D_20250230 == <<"2", "0", "2", "5", "-", "0", "2", "-", "3", "0">>
D_Unpadded == <<"2", "0", "2", "5", "-", "3", "-", "1">>
D_Slashes == <<"0", "3", "/", "0", "1", "/", "2", "0", "2", "5">>

\* Numeric and non-numeric texts for Estimated Hours.
H_3 == <<"3">>
H_Half == <<"0", ".", "5">>
H_40 == <<"4", "0">>
H_100 == <<"1", "0", "0">>
H_Minus5 == <<"-", "5">>
H_0 == <<"0">>
H_abc == <<"a", "b", "c">>

\* "<marker>: <value>"
Field(marker, value) == marker \o Colon \o Sp \o value

\* "a, b"
CommaSep(a, b) == a \o Comma \o Sp \o b

(***************************************************************************)
(* analyze_task (src/app.py lines 43-92)                                   *)
(***************************************************************************)

\* The completion request either raises, or returns a reply whose content
\* is a text.
Raised == [raised |-> TRUE, content |-> <<>>]
Reply(text) == [raised |-> FALSE, content |-> text]

\* The default of estimated_hours, 4, in tenths.
DefaultHours == 40

\* The defaults with estimated_hours = 2 (a faulty variant).
default_result_two_hours(today) ==
    [due_date |-> strftime(NextDay(today)),
     priority |-> W_Medium,
     complexity |-> W_Medium,
     estimated_hours |-> 20]

\* The record of defaults, built on lines 58-63 and again on lines 87-92;
\* `today` is datetime.now() as a date.
default_result(today) ==
    [due_date |-> strftime(NextDay(today)),
     priority |-> W_Medium,
     complexity |-> W_Medium,
     estimated_hours |-> DefaultHours]

\* line.split(":")[-1], the strip() forgotten (a faulty variant).
last_field_unstripped(line) == Last(split(line, ":"))

\* line.split(":")[-1].strip()
last_field(line) == strip(Last(split(line, ":")))

\* One pass of the loop body of lines 65-82 over one piece of the reply.
parse_line(result, piece) ==
    LET line == strip(piece) IN
    IF Contains(line, W_DueDate)
    THEN IF strptime_ok(last_field(line))
         THEN [result EXCEPT !.due_date = last_field(line)]
         ELSE result
    ELSE IF Contains(line, W_Priority)
    THEN [result EXCEPT !.priority = last_field(line)]
    ELSE IF Contains(line, W_Complexity)
    THEN [result EXCEPT !.complexity = last_field(line)]
    ELSE IF Contains(line, W_EstimatedHours)
    THEN IF float(last_field(line)).ok
         THEN [result EXCEPT !.estimated_hours = float(last_field(line)).val]
         ELSE result
    ELSE result

\* for line in analysis.split(","): ...
RECURSIVE parse_lines(_, _)
parse_lines(result, pieces) ==
    IF pieces = <<>> THEN result
    ELSE parse_lines(parse_line(result, Head(pieces)), Tail(pieces))

\* What analyze_task returns for the completion request's outcome `reply`,
\* when datetime.now() is the date `today`.  An exception of the request is
\* caught on line 85 and answered with the defaults.
analyze_task(reply, today) ==
    IF reply.raised
    THEN default_result(today)
    ELSE parse_lines(default_result(today), split(strip(reply.content), ","))

(***************************************************************************)
(* The tasks collection and the functions that read and write it           *)
(***************************************************************************)

\* An optional value: None, or one value.
None == <<>>
Some(x) == <<x>>
The(o) == o[1]

\* TASK_CATEGORIES (lines 26-38); the model keeps two of the eleven.
TASK_CATEGORIES == {"Bug Fix", "Testing"}

\* The statuses of the View Tasks tab (line 309).
Statuses == {"Pending", "In Progress", "Completed"}

\* save_task with the priority fixed to "Medium" (a faulty variant).
save_task_medium(description, category, result, dependencies, github_link, notes, id, ts) ==
    [_id |-> id,
     description |-> description,
     category |-> category,
     due_date |-> result.due_date,
     priority |-> W_Medium,
     complexity |-> result.complexity,
     estimated_hours |-> result.estimated_hours,
     actual_hours |-> 0,
     dependencies |-> dependencies,
     github_link |-> github_link,
     notes |-> notes,
     status |-> "Pending",
     created_at |-> ts,
     last_updated |-> ts,
     time_entries |-> <<>>]

\* The document save_task builds on lines 94-109 and inserts on line 110;
\* `id` is the _id the collection gives it, `ts` is datetime.now(pytz.UTC).
save_task(description, category, result, dependencies, github_link, notes, id, ts) ==
    [_id |-> id,
     description |-> description,
     category |-> category,
     due_date |-> result.due_date,
     priority |-> result.priority,
     complexity |-> result.complexity,
     estimated_hours |-> result.estimated_hours,
     actual_hours |-> 0,
     dependencies |-> dependencies,
     github_link |-> github_link,
     notes |-> notes,
     status |-> "Pending",
     created_at |-> ts,
     last_updated |-> ts,
     time_entries |-> <<>>]

\* send_email (lines 114-157): TRUE when the message was handed to the SMTP
\* server, FALSE when anything raised: strptime of the task's due_date on
\* line 116, or the SMTP exchange of lines 150-153 (`smtp_up` is whether
\* that exchange succeeds).
send_email(task, smtp_up) == strptime_ok(task.due_date) /\ smtp_up

\* The query fetch_tasks builds on lines 160-166, applied to one document.
\* An empty date_filter or status_filter is Python's falsy None or "".
Matches(t, date_filter, status_filter, category_filter) ==
    /\ date_filter # <<>> => t.due_date = date_filter
    /\ (status_filter # "" /\ status_filter # "All") => t.status = status_filter
    /\ (category_filter # "" /\ category_filter # "All") =>
           t.category = category_filter

\* sort([("due_date", 1), ("priority", -1)]): a comes before b, or the two
\* tie.  Both keys are strings, compared by code point.
SortedPair(a, b) ==
    \/ StrLess(a.due_date, b.due_date)
    \/ /\ a.due_date = b.due_date
       /\ ~StrLess(a.priority, b.priority)

\* fetch_tasks (lines 159-167): the results the query may give, each a
\* sequence of the matching documents in sort order; documents that tie on
\* both keys come in an order MongoDB does not promise.
fetch_tasks(coll, date_filter, status_filter, category_filter) ==
    LET hit == {i \in 1..Len(coll) :
                    Matches(coll[i], date_filter, status_filter, category_filter)}
        n == Cardinality(hit)
        orders == {f \in [1..n -> hit] :
                      /\ \A i, j \in 1..n : i # j => f[i] # f[j]
                      /\ \A i, j \in 1..n :
                             i < j => SortedPair(coll[f[i]], coll[f[j]])}
    IN {[k \in 1..n |-> coll[f[k]]] : f \in orders}

\* update_task_status with the filter on _id left out, as update_many would
\* apply it (a faulty variant).
update_task_status_many(coll, task_id, new_status, ts) ==
    [i \in 1..Len(coll) |->
        [coll[i] EXCEPT !.status = new_status, !.last_updated = ts]]

\* update_task_status (lines 169-178): update_one with $set on the document
\* whose _id is task_id, if there is one.
update_task_status(coll, task_id, new_status, ts) ==
    [i \in 1..Len(coll) |->
        IF coll[i]._id = task_id
        THEN [coll[i] EXCEPT !.status = new_status, !.last_updated = ts]
        ELSE coll[i]]

\* add_time_entry with actual_hours set to the hours of the entry instead of
\* incremented by them (a faulty variant).
add_time_entry_overwrite(coll, task_id, hours, description, ts) ==
    LET time_entry == [hours |-> hours, description |-> description,
                       timestamp |-> ts]
    IN [i \in 1..Len(coll) |->
           IF coll[i]._id = task_id
           THEN [coll[i] EXCEPT !.time_entries = Append(@, time_entry),
                                !.actual_hours = hours,
                                !.last_updated = ts]
           ELSE coll[i]]

\* add_time_entry (lines 180-195): $push, $inc and $set of one update_one,
\* which MongoDB applies to the document as one write.
add_time_entry(coll, task_id, hours, description, ts) ==
    LET time_entry == [hours |-> hours, description |-> description,
                       timestamp |-> ts]
    IN [i \in 1..Len(coll) |->
           IF coll[i]._id = task_id
           THEN [coll[i] EXCEPT !.time_entries = Append(@, time_entry),
                                !.actual_hours = @ + hours,
                                !.last_updated = ts]
           ELSE coll[i]]

(***************************************************************************)
(* Bounds and inputs of the model                                          *)
(***************************************************************************)

\* Tasks added in one run, counting the Add Task handlers under way.
MaxTasks == 1
\* The clock's last day, counted from Epoch.
MaxClock == 1
\* Time entries logged in one run.
MaxLogs == 2

\* The browser sessions; Streamlit runs each session's script in a thread
\* of its own.
Sessions == {"s1", "s2"}

\* The date of the clock's day 0.
Epoch == [y |-> 2025, m |-> 2, d |-> 27]

\* datetime.now() as a date, on the clock's day `n`.
Today(n) == AddDays(Epoch, n)

\* Task descriptions typed into the form: empty, blank, and not blank.
W_Fix == <<" ", "F", "i", "x">>
Descriptions == {<<>>, <<" ">>, W_Fix}

\* What the dependency multiselect shows for a task (line 215),
\* f"{t['description']} ({t['_id']})", with the _id written as one digit.
option_label(t) == t.description \o <<" ", "(">> \o <<DigitChar(t._id)>> \o <<")">>

\* str.strip(")") of a text with no ")" at its left end.
RECURSIVE strip_paren(_)
strip_paren(s) ==
    IF s # <<>> /\ s[Len(s)] = ")"
    THEN strip_paren(Slice(s, 1, Len(s) - 1))
    ELSE s

\* dep.split("(")[-1].strip(")") of line 235
dependency_id(label) == strip_paren(Last(split(label, "(")))

\* Well-formed replies "Due Date: d, Priority: p, Estimated Hours: h".
WellFormed(d, p, h) ==
    CommaSep(CommaSep(Field(W_DueDate, d), Field(W_Priority, p)),
             Field(W_EstimatedHours, h))

\* The parts of the well-formed replies: each date with each priority, the
\* hours going with the priority.
WellFormedDates == {D_20250301, D_20240229}
HoursWith(p) == IF p = W_High THEN H_3 ELSE IF p = W_Medium THEN H_Half ELSE H_40

WellFormedReplies ==
    {Reply(WellFormed(d, p, HoursWith(p))) :
        d \in WellFormedDates, p \in Priorities}

\* Replies in the format the prompt asks for, Complexity included, and
\* replies that break it.
OtherReplies ==
    {Raised,
     Reply(<<>>),
     Reply(CommaSep(WellFormed(D_20250228, W_Low, H_3),
                    Field(W_Complexity, W_Hard))),
     Reply(CommaSep(WellFormed(D_20250230, W_Urgent, H_abc),
                    Field(W_Complexity, W_Trivial))),
     Reply(Field(W_DueDate, D_20250301) \o Newline \o Field(W_Priority, W_High)),
     Reply(Field(W_DueDate, D_Unpadded)),
     Reply(Field(W_DueDate, D_Slashes)),
     Reply(Field(W_EstimatedHours, H_100)),
     Reply(Field(W_EstimatedHours, H_Minus5)),
     Reply(Field(W_EstimatedHours, H_0))}

AllReplies == WellFormedReplies \cup OtherReplies

\* The filters picked in the View Tasks tab: a date, a status, a category.
FilterDates == {D_20250301, D_20250228}
FilterStatuses == {"All", "Pending", "Completed"}
FilterCategories == {"All", "Bug Fix"}

\* Hours typed into the Time Tracking tab's number input (0.1 to 24.0), in
\* tenths.
HoursInputs == {5, 15}

\* Descriptions typed for a time entry: blank, and not blank.
TimeDescriptions == {<<" ">>, <<"x">>}

(***************************************************************************)
(* The state                                                               *)
(***************************************************************************)

VARIABLES
    now,              \* the clock, in days since Epoch
    tasks_collection, \* the documents of db["tasks"], in insertion order
    oracle,           \* the outcomes the completion request may have
    pc,               \* where each session's Add Task handler stands
    form,             \* the Add Task form as the handler read it
    requests,         \* completion requests the handler has issued
    reply,            \* the completion request's outcome
    analysis_result,  \* what analyze_task returned
    saved_task,       \* what save_task returned
    notices,          \* the st.error/warning/success/info of a handler
    outbox,           \* the _ids of the tasks whose e-mail was sent
    view,             \* the tasks the View Tasks tab fetched in this run
    tt_tasks,         \* the tasks the Time Tracking tab fetched in this run
    time_log          \* the add_time_entry calls applied, in order

vars == <<now, tasks_collection, oracle, pc, form, requests, reply,
          analysis_result, saved_task, notices, outbox, view, tt_tasks,
          time_log>>

addVars == <<pc, form, requests, reply, analysis_result, saved_task>>

\* The state of the program with `stored` in the collection, on day `day`,
\* every session between two runs of its script.
InitWith(stored, day, replies) ==
    /\ now = day
    /\ tasks_collection = stored
    /\ oracle = replies
    /\ pc = [s \in Sessions |-> "idle"]
    /\ form = [s \in Sessions |-> None]
    /\ requests = [s \in Sessions |-> 0]
    /\ reply = [s \in Sessions |-> None]
    /\ analysis_result = [s \in Sessions |-> None]
    /\ saved_task = [s \in Sessions |-> None]
    /\ notices = [s \in Sessions |-> <<>>]
    /\ outbox = <<>>
    /\ view = [s \in Sessions |-> <<>>]
    /\ tt_tasks = [s \in Sessions |-> <<>>]
    /\ time_log = <<>>

\* The Add Task handlers under way that have not inserted their task yet.
Pending == {s \in Sessions : pc[s] \in {"analyze", "save"}}

(***************************************************************************)
(* The Add Task handler (lines 229-256)                                    *)
(***************************************************************************)

\* The forms a session may submit: a description, a category, and
\* dependencies chosen among the labels of the existing tasks.
Forms ==
    {[description |-> d, category |-> c, task_dependencies |-> deps,
      github_link |-> <<>>, notes |-> <<>>] :
        d \in Descriptions, c \in TASK_CATEGORIES,
        deps \in {<<>>} \cup {<<option_label(tasks_collection[i])>> :
                                 i \in 1..Len(tasks_collection)}}

\* Line 230 with the strip() forgotten (a faulty variant).
description_given_unstripped(task_input) == task_input # <<>>

\* Line 230: the description is not blank.
description_given(task_input) == strip(task_input) # <<>>

\* "Add Task" pressed with a blank description: line 256.
AddTaskBlank(s, f) ==
    /\ pc[s] = "idle"
    /\ ~description_given(f.description)
    /\ notices' = [notices EXCEPT ![s] = <<"warning: enter a description">>]
    /\ view' = [view EXCEPT ![s] = <<>>]
    /\ tt_tasks' = [tt_tasks EXCEPT ![s] = <<>>]
    /\ UNCHANGED <<now, tasks_collection, oracle, addVars, outbox, time_log>>

\* "Add Task" pressed with a description: analyze_task is entered and
\* issues its completion request (lines 232, 46).
AddTask(s, f) ==
    /\ pc[s] = "idle"
    /\ description_given(f.description)
    /\ Len(tasks_collection) + Cardinality(Pending) < MaxTasks
    /\ pc' = [pc EXCEPT ![s] = "analyze"]
    /\ form' = [form EXCEPT ![s] = Some(f)]
    /\ requests' = [requests EXCEPT ![s] = @ + 1]
    /\ notices' = [notices EXCEPT ![s] = <<>>]
    /\ view' = [view EXCEPT ![s] = <<>>]
    /\ tt_tasks' = [tt_tasks EXCEPT ![s] = <<>>]
    /\ UNCHANGED <<now, tasks_collection, oracle, reply, analysis_result,
                   saved_task, outbox, time_log>>

\* The completion request ends with outcome r, and analyze_task returns
\* (lines 55-92).
AnalyzeReturn(s, r) ==
    /\ pc[s] = "analyze"
    /\ r \in oracle
    /\ pc' = [pc EXCEPT ![s] = "save"]
    /\ reply' = [reply EXCEPT ![s] = Some(r)]
    /\ analysis_result' =
           [analysis_result EXCEPT ![s] = Some(analyze_task(r, Today(now)))]
    /\ notices' = [notices EXCEPT ![s] =
           IF r.raised THEN Append(@, "error: analyzing the task") ELSE @]
    /\ UNCHANGED <<now, tasks_collection, oracle, form, requests, saved_task,
                   outbox, view, tt_tasks, time_log>>

\* Lines 235-244: the dependency ids are cut out of the labels and
\* save_task inserts the document.
SaveTask(s) ==
    /\ pc[s] = "save"
    /\ LET f == The(form[s])
           dependencies == [k \in 1..Len(f.task_dependencies) |->
                               dependency_id(f.task_dependencies[k])]
           task == save_task(f.description, f.category,
                             The(analysis_result[s]), dependencies,
                             f.github_link, f.notes,
                             Len(tasks_collection) + 1, now)
       IN /\ tasks_collection' = Append(tasks_collection, task)
          /\ saved_task' = [saved_task EXCEPT ![s] = Some(task)]
    /\ pc' = [pc EXCEPT ![s] = "email"]
    /\ UNCHANGED <<now, oracle, form, requests, reply, analysis_result,
                   notices, outbox, view, tt_tasks, time_log>>

\* The handler taking its task back out of the collection when send_email
\* returns False (a faulty variant).
SendEmailRollback(s, smtp_up) ==
    /\ pc[s] = "email"
    /\ LET task == The(saved_task[s])
           email_sent == send_email(task, smtp_up)
       IN /\ outbox' = IF email_sent THEN Append(outbox, task._id) ELSE outbox
          /\ tasks_collection' =
                 IF email_sent THEN tasks_collection
                 ELSE SelectSeq(tasks_collection, LAMBDA t : t._id # task._id)
          /\ notices' = [notices EXCEPT ![s] =
                 (IF email_sent THEN @ ELSE Append(@, "error: sending email"))
                 \o <<"success: task added">>
                 \o (IF email_sent THEN <<"info: email sent">> ELSE <<>>)]
    /\ pc' = [pc EXCEPT ![s] = "idle"]
    /\ form' = [form EXCEPT ![s] = None]
    /\ requests' = [requests EXCEPT ![s] = 0]
    /\ reply' = [reply EXCEPT ![s] = None]
    /\ analysis_result' = [analysis_result EXCEPT ![s] = None]
    /\ saved_task' = [saved_task EXCEPT ![s] = None]
    /\ UNCHANGED <<now, oracle, view, tt_tasks, time_log>>

\* Lines 246-254: send_email, then the success notice whatever it returned;
\* the script's run ends and its locals are gone.
SendEmail(s, smtp_up) ==
    /\ pc[s] = "email"
    /\ LET task == The(saved_task[s])
           email_sent == send_email(task, smtp_up)
       IN /\ outbox' = IF email_sent THEN Append(outbox, task._id) ELSE outbox
          /\ notices' = [notices EXCEPT ![s] =
                 (IF email_sent THEN @ ELSE Append(@, "error: sending email"))
                 \o <<"success: task added">>
                 \o (IF email_sent THEN <<"info: email sent">> ELSE <<>>)]
    /\ pc' = [pc EXCEPT ![s] = "idle"]
    /\ form' = [form EXCEPT ![s] = None]
    /\ requests' = [requests EXCEPT ![s] = 0]
    /\ reply' = [reply EXCEPT ![s] = None]
    /\ analysis_result' = [analysis_result EXCEPT ![s] = None]
    /\ saved_task' = [saved_task EXCEPT ![s] = None]
    /\ UNCHANGED <<now, tasks_collection, oracle, view, tt_tasks, time_log>>

(***************************************************************************)
(* The View Tasks tab (lines 259-317)                                      *)
(***************************************************************************)

\* Of a fetched document, the fields a handler goes on to read, and those
\* the query matched and sorted on; the other fields are only displayed.
fetched(t) ==
    [_id |-> t._id, status |-> t.status, category |-> t.category,
     due_date |-> t.due_date, priority |-> t.priority]

\* A fetched list, as the run keeps it.
kept(tasks) == [k \in 1..Len(tasks) |-> fetched(tasks[k])]

\* "Refresh Tasks" pressed: a run of the script reaches lines 270-275.
RefreshTasks(s, date_filter, status_filter, category_filter) ==
    /\ pc[s] = "idle"
    /\ \E tasks \in fetch_tasks(tasks_collection, date_filter, status_filter,
                                category_filter) :
           view' = [view EXCEPT ![s] = kept(tasks)]
    /\ tt_tasks' = [tt_tasks EXCEPT ![s] = <<>>]
    /\ notices' = [notices EXCEPT ![s] = <<>>]
    /\ UNCHANGED <<now, tasks_collection, oracle, addVars, outbox, time_log>>

\* The status select box of the i-th task shown gives new_status: lines
\* 307-315.  Line 315 ends the run.
UpdateStatus(s, i, new_status) ==
    /\ pc[s] = "idle"
    /\ i \in 1..Len(view[s])
    /\ new_status # view[s][i].status
    /\ tasks_collection' =
           update_task_status(tasks_collection, view[s][i]._id, new_status, now)
    /\ view' = [view EXCEPT ![s] = <<>>]
    /\ UNCHANGED <<now, oracle, addVars, notices, outbox, tt_tasks, time_log>>

(***************************************************************************)
(* The Time Tracking tab (lines 320-345)                                   *)
(***************************************************************************)

\* A run of the script reaches line 323 and fetches the tasks in progress.
OpenTimeTracking(s) ==
    /\ pc[s] = "idle"
    /\ \E tasks \in fetch_tasks(tasks_collection, <<>>, "In Progress", "") :
           tt_tasks' = [tt_tasks EXCEPT ![s] = kept(tasks)]
    /\ view' = [view EXCEPT ![s] = <<>>]
    /\ notices' = [notices EXCEPT ![s] = <<>>]
    /\ UNCHANGED <<now, tasks_collection, oracle, addVars, outbox, time_log>>

\* "Log Time" pressed for the i-th task of the select box, the description
\* not blank: lines 337-341.  Line 341 ends the run.
LogTime(s, i, hours, time_description) ==
    /\ pc[s] = "idle"
    /\ i \in 1..Len(tt_tasks[s])
    /\ strip(time_description) # <<>>
    /\ Len(time_log) < MaxLogs
    /\ tasks_collection' =
           add_time_entry(tasks_collection, tt_tasks[s][i]._id, hours,
                          time_description, now)
    /\ time_log' = Append(time_log,
           [task_id |-> tt_tasks[s][i]._id, hours |-> hours,
            description |-> time_description, timestamp |-> now])
    /\ tt_tasks' = [tt_tasks EXCEPT ![s] = <<>>]
    /\ UNCHANGED <<now, oracle, addVars, notices, outbox, view>>

\* "Log Time" pressed with a blank description: line 343.
LogTimeBlank(s, i, time_description) ==
    /\ pc[s] = "idle"
    /\ i \in 1..Len(tt_tasks[s])
    /\ strip(time_description) = <<>>
    /\ notices' = [notices EXCEPT ![s] = <<"warning: enter a description">>]
    /\ tt_tasks' = [tt_tasks EXCEPT ![s] = <<>>]
    /\ UNCHANGED <<now, tasks_collection, oracle, addVars, outbox, view,
                   time_log>>

\* A day passes.
Tick ==
    /\ now < MaxClock
    /\ now' = now + 1
    /\ UNCHANGED <<tasks_collection, oracle, addVars, notices, outbox, view,
                   tt_tasks, time_log>>

(***************************************************************************)
(* Specifications                                                          *)
(***************************************************************************)

\* The steps of the Add Task handler, and the clock's.
NextAdd ==
    \/ \E s \in Sessions, f \in Forms : AddTaskBlank(s, f)
    \/ \E s \in Sessions, f \in Forms : AddTask(s, f)
    \/ \E s \in Sessions, r \in oracle : AnalyzeReturn(s, r)
    \/ \E s \in Sessions : SaveTask(s)
    \/ \E s \in Sessions, smtp_up \in BOOLEAN : SendEmail(s, smtp_up)
    \/ Tick

\* The steps of the View Tasks and Time Tracking tabs.
NextOps ==
    \/ \E s \in Sessions, d \in FilterDates, st \in FilterStatuses,
          c \in FilterCategories : RefreshTasks(s, d, st, c)
    \/ \E s \in Sessions : \E i \in 1..Len(view[s]), st \in Statuses :
          UpdateStatus(s, i, st)
    \/ \E s \in Sessions : OpenTimeTracking(s)
    \/ \E s \in Sessions : \E i \in 1..Len(tt_tasks[s]), h \in HoursInputs,
          d \in TimeDescriptions : LogTime(s, i, h, d)
    \/ \E s \in Sessions : \E i \in 1..Len(tt_tasks[s]), d \in TimeDescriptions :
          LogTimeBlank(s, i, d)

\* The Add Task flow from an empty collection; the completion request has
\* one outcome throughout a run, any of AllReplies.
InitAdd == \E r \in AllReplies : InitWith(<<>>, 0, {r})

SpecAdd == InitAdd /\ [][NextAdd]_vars

\* The collection after two Add Task runs on day 0: two tasks due on the
\* same day, of different priorities and categories.
Stored ==
    <<save_task(W_Fix, "Bug Fix",
                analyze_task(Reply(WellFormed(D_20250301, W_High, H_3)), Today(0)),
                <<>>, <<>>, <<>>, 1, 0),
      save_task(W_Fix, "Testing",
                analyze_task(Reply(WellFormed(D_20250301, W_Medium, H_Half)), Today(0)),
                <<>>, <<>>, <<>>, 2, 0)>>

\* The View Tasks and Time Tracking flows on the stored tasks, a day later.
InitOps == InitWith(Stored, 1, {})

SpecOps == InitOps /\ [][NextOps]_vars

\* The whole program from an empty collection.
Init == InitWith(<<>>, 0, AllReplies)

Next == NextAdd \/ NextOps

Spec == Init /\ [][Next]_vars

(***************************************************************************)
(* What the properties are stated with                                     *)
(***************************************************************************)

D_20250302 == <<"2", "0", "2", "5", "-", "0", "3", "-", "0", "2">>
D_20250303 == <<"2", "0", "2", "5", "-", "0", "3", "-", "0", "3">>

\* The day after the clock's day n, written YYYY-MM-DD (Epoch is 2025-02-27).
Tomorrow(n) == <<D_20250228, D_20250301, D_20250302, D_20250303>>[n + 1]

\* The number a text of WellFormedHours or of the out-of-bound replies
\* denotes, in tenths.
HoursValue(h) ==
    CASE h = H_3 -> 30
      [] h = H_Half -> 5
      [] h = H_40 -> 400
      [] h = H_100 -> 1000
      [] h = H_Minus5 -> 0 - 50
      [] h = H_0 -> 0

\* A text of the shape YYYY-MM-DD: ten characters, digits but for the two
\* hyphens, a month of 01..12 and a day of 01..31.
IsDateText(s) ==
    /\ Len(s) = 10
    /\ s[5] = "-" /\ s[8] = "-"
    /\ \A i \in {1, 2, 3, 4, 6, 7, 9, 10} : s[i] \in Digits
    /\ 10 * DigitVal(s[6]) + DigitVal(s[7]) \in 1..12
    /\ 10 * DigitVal(s[9]) + DigitVal(s[10]) \in 1..31

\* A text with a character that is not white space.
NotBlank(s) == \E i \in 1..Len(s) : s[i] \notin Whitespace

\* The severity of a priority: High over Medium over Low.
Severity(p) ==
    IF p = W_High THEN 3 ELSE IF p = W_Medium THEN 2 ELSE IF p = W_Low THEN 1 ELSE 0

\* The steps of a session's Add Task handler, told by where it stands
\* before and after.
AnalyzeReturns(s) == pc[s] = "analyze" /\ pc'[s] = "save"
Saves(s) == pc[s] = "save" /\ pc'[s] = "email"
Emails(s) == pc[s] = "email" /\ pc'[s] = "idle"

\* The document the collection holds under an _id.
Stored_ids(coll) == {coll[i]._id : i \in 1..Len(coll)}
Doc(coll, id) == coll[CHOOSE i \in 1..Len(coll) : coll[i]._id = id]

(***************************************************************************)
(* C1.  Whatever the completion request replies, analyze_task returns a    *)
(* record whose due_date is a YYYY-MM-DD date text, whose priority is one  *)
(* of High, Medium, Low and whose complexity is one of Easy, Medium, Hard. *)
(* The code stores the priority and complexity texts of the reply          *)
(* unchecked, so this fails.                                               *)
(***************************************************************************)
C1_ResultInDomain ==
    \A s \in Sessions :
        analysis_result[s] # None =>
            /\ IsDateText(The(analysis_result[s]).due_date)
            /\ The(analysis_result[s]).priority \in Priorities
            /\ The(analysis_result[s]).complexity \in Complexities

(***************************************************************************)
(* C2.  When the completion request raises, analyze_task returns the       *)
(* defaults and the handler goes on; one request was issued.               *)
(***************************************************************************)

C3_WellFormedReplyPersisted ==
    [][\A s \in Sessions :
          Saves(s) =>
              /\ Len(tasks_collection') = Len(tasks_collection) + 1
              /\ \A d \in WellFormedDates, p \in Priorities :
                     The(reply[s]) = Reply(WellFormed(d, p, HoursWith(p))) =>
                         LET t == Last(tasks_collection') IN
                         /\ t.due_date = d
                         /\ t.priority = p
                         /\ t.estimated_hours = HoursValue(HoursWith(p))
                         /\ t.status = "Pending"
                         /\ t.actual_hours = 0
                         /\ t.time_entries = <<>>
                         /\ t.description = The(form[s]).description
                         /\ t.category = The(form[s]).category]_vars

\* The spec's scenario: a Bug Fix task, the reply "Due Date: 2025-03-01,
\* Priority: High, Estimated Hours: 3", and the task in the collection.
C3_Witness ==
    \E s \in Sessions :
        /\ pc[s] = "email"
        /\ The(form[s]).category = "Bug Fix"
        /\ The(reply[s]) = Reply(WellFormed(D_20250301, W_High, H_3))
        /\ \E i \in 1..Len(tasks_collection) :
               /\ tasks_collection[i].due_date = D_20250301
               /\ tasks_collection[i].priority = W_High
               /\ tasks_collection[i].estimated_hours = 30
               /\ tasks_collection[i].status = "Pending"

(***************************************************************************)
(* C4.  The attributes of the task the handler inserts come from the user's*)
(* override where one is given, and from the analysis otherwise.           *)
(***************************************************************************)

\* The override the form gives for an attribute, if any: a field of that
\* name that is neither empty nor the "auto-detect" sentinel.
Override(f, a) ==
    IF a \in DOMAIN f /\ f[a] # <<>>
          /\ f[a] # <<"a", "u", "t", "o", "-", "d", "e", "t", "e", "c", "t">>
    THEN Some(f[a])
    ELSE None

C5_HoursInBound ==
    \A i \in 1..Len(tasks_collection) :
        /\ tasks_collection[i].estimated_hours >= 5
        /\ tasks_collection[i].estimated_hours <= 400

(***************************************************************************)
(* C6.  A task that is Completed carries the completion_date stamped by the*)
(* update that first completed it.  update_task_status sets status and     *)
(* last_updated only, so this fails.                                       *)
(***************************************************************************)
C6_CompletionDateStamped ==
    \A i \in 1..Len(tasks_collection) :
        tasks_collection[i].status = "Completed" =>
            "completion_date" \in DOMAIN tasks_collection[i]

(***************************************************************************)
(* C7.  In every state, every task's actual_hours is the sum of the hours  *)
(* of the add_time_entry calls applied to it, and its time_entries are the *)
(* records of those calls, one per call, in the order they were applied:   *)
(* no state shows one of the two written without the other.                *)
(***************************************************************************)

\* The calls applied to one task, in order.
CallsOn(id) == SelectSeq(time_log, LAMBDA c : c.task_id = id)

RECURSIVE SumHours(_)
SumHours(calls) ==
    IF calls = <<>> THEN 0 ELSE Head(calls).hours + SumHours(Tail(calls))

C7_TimeAccumulates ==
    \A i \in 1..Len(tasks_collection) :
        LET t == tasks_collection[i]
            calls == CallsOn(t._id)
        IN /\ t.actual_hours = SumHours(calls)
           /\ Len(t.time_entries) = Len(calls)
           /\ \A k \in 1..Len(calls) :
                  t.time_entries[k] =
                      [hours |-> calls[k].hours,
                       description |-> calls[k].description,
                       timestamp |-> calls[k].timestamp]

\* Two calls on one task, 1.5 hours and then 0.5: 2.0 hours, two entries in
\* that order.
C7_Witness ==
    \E i \in 1..Len(tasks_collection) :
        /\ Len(tasks_collection[i].time_entries) = 2
        /\ tasks_collection[i].time_entries[1].hours = 15
        /\ tasks_collection[i].time_entries[2].hours = 5
        /\ tasks_collection[i].actual_hours = 20

(***************************************************************************)
(* C8.  When the handler calls send_email the task is in the collection    *)
(* already; whether send_email returns True or False, the step leaves the  *)
(* collection as it is and the handler ends with its success notice.       *)
(***************************************************************************)
C8_EmailAfterInsert ==
    [][\A s \in Sessions :
          Emails(s) =>
              /\ The(saved_task[s])._id \in Stored_ids(tasks_collection)
              /\ tasks_collection' = tasks_collection
              /\ \E k \in 1..Len(notices'[s]) :
                     notices'[s][k] = "success: task added"]_vars

\* send_email has failed: the handler has ended, the error is shown, no
\* e-mail went out, and the task is in the collection.
C8_Witness ==
    \E s \in Sessions :
        /\ pc[s] = "idle"
        /\ notices[s] = <<"error: sending email", "success: task added">>
        /\ outbox = <<>>
        /\ Len(tasks_collection) = 1

(***************************************************************************)
(* C9.  Every task in the collection has a description that is not blank,  *)
(* every completion request under way belongs to a form whose description  *)
(* is not blank, and every e-mail sent is that of a task in the collection:*)
(* a blank description leads to no request, no insert and no e-mail.       *)
(***************************************************************************)
C9_DescriptionRequired ==
    /\ \A i \in 1..Len(tasks_collection) :
           NotBlank(tasks_collection[i].description)
    /\ \A s \in Sessions :
           requests[s] > 0 => NotBlank(The(form[s]).description)
    /\ \A s \in Sessions : requests[s] = 0 <=> pc[s] = "idle"
    /\ \A k \in 1..Len(outbox) : outbox[k] \in Stored_ids(tasks_collection)

\* "Add Task" was pressed with a blank description: the warning is shown,
\* and there is no request, no task and no e-mail.
C9_Witness ==
    \E s \in Sessions :
        /\ notices[s] = <<"warning: enter a description">>
        /\ \A x \in Sessions : requests[x] = 0
        /\ tasks_collection = <<>>
        /\ outbox = <<>>

(***************************************************************************)
(* C10.  A fetched list is in ascending order of due_date, and tasks of    *)
(* one due_date come High before Medium before Low.  The code sorts the    *)
(* priority texts in descending code point order, Medium before Low before *)
(* High, so this fails.                                                    *)
(***************************************************************************)
C10_FetchOrder ==
    \A s \in Sessions : \A tasks \in {view[s], tt_tasks[s]} :
        \A i, j \in 1..Len(tasks) :
            i < j =>
                \/ StrLess(tasks[i].due_date, tasks[j].due_date)
                \/ /\ tasks[i].due_date = tasks[j].due_date
                   /\ Severity(tasks[i].priority) >= Severity(tasks[j].priority)

(***************************************************************************)
(* C11.  A step of update_task_status leaves the collection with the same  *)
(* tasks in the same places, changes no task but the one whose status box  *)
(* was used, and of that task changes status and last_updated only.  A     *)
(* step of add_time_entry likewise changes no task but the one the entry   *)
(* is for, and of that task changes time_entries, actual_hours and         *)
(* last_updated only: its status stays.                                    *)
(***************************************************************************)

\* `u` is `t` but for status and last_updated.
StatusFrame(t, u) ==
    u = [t EXCEPT !.status = u.status, !.last_updated = u.last_updated]

\* `u` is `t` but for time_entries, actual_hours and last_updated.
TimeFrame(t, u) ==
    u = [t EXCEPT !.time_entries = u.time_entries,
                  !.actual_hours = u.actual_hours,
                  !.last_updated = u.last_updated]

\* The ids of the tasks some session has listed in its View Tasks tab.
Viewed_ids ==
    UNION {{view[s][i]._id : i \in 1..Len(view[s])} : s \in Sessions}

\* Of the steps of the two tabs, only update_task_status writes to the
\* collection without logging a call, and only add_time_entry logs one.
C11_WritesFramed ==
    [][/\ Len(tasks_collection') = Len(tasks_collection)
       /\ time_log' = time_log =>
              \E id \in Viewed_ids \cup {0} :
                  \A i \in 1..Len(tasks_collection) :
                      IF tasks_collection[i]._id = id
                      THEN StatusFrame(tasks_collection[i], tasks_collection'[i])
                      ELSE tasks_collection'[i] = tasks_collection[i]
       /\ time_log' # time_log =>
              \A i \in 1..Len(tasks_collection) :
                  IF tasks_collection[i]._id = Last(time_log').task_id
                  THEN TimeFrame(tasks_collection[i], tasks_collection'[i])
                  ELSE tasks_collection'[i] = tasks_collection[i]]_vars

\* The first task has been put in progress, has had time logged, and has
\* been completed; the second task has not been touched.
C11_Witness ==
    /\ Len(tasks_collection) = 2
    /\ tasks_collection[1].status = "Completed"
    /\ tasks_collection[1].time_entries # <<>>
    /\ tasks_collection[1].last_updated # tasks_collection[1].created_at
    /\ tasks_collection[2] = Stored[2]

(***************************************************************************)
(* C12.  A step that appends a time entry to a task finds that task In     *)
(* Progress.  The Time Tracking run fetches its list on line 323 and calls *)
(* add_time_entry on line 339, and add_time_entry matches on _id alone: a  *)
(* status update of another session between the two makes this fail.       *)
(***************************************************************************)
C12_LoggedInProgress ==
    [][\A i \in 1..Len(tasks_collection) :
          tasks_collection'[i].time_entries # tasks_collection[i].time_entries
              => tasks_collection[i].status = "In Progress"]_vars

=============================================================================
